---- MODULE Spec2Model ----
(***************************************************************************)
(* Selection model of the artwork gallery (App component): the baseline    *)
(* count customSelectionTotal, the two exception sets selectedRowIds and   *)
(* deselectedRowIds, the page currently displayed and the page fetches in  *)
(* flight.  Every handler of the component is one action.                  *)
(***************************************************************************)
EXTENDS Integers, Sequences, FiniteSets, TLC

\* ------------------------------------------------------------------ bounds
\* size of the remote collection (pagination.total of every response)
RemoteTotal == 20
\* highest page number the next button is followed to
MaxPage == 2
\* highest number of page fetches in flight at once
MaxPending == 2
\* longest sequence of row events compared with another
MaxToggles == 2

\* ------------------------------------------------------- program constants
rowsPerPage == 12

VARIABLES artworks, loading, currentPage, totalRecords,
          selectedRowIds, deselectedRowIds,
          customSelectionTotal, customTotalRef, selectCount,
          mounted, pending, last

vars == <<artworks, loading, currentPage, totalRecords,
          selectedRowIds, deselectedRowIds,
          customSelectionTotal, customTotalRef, selectCount,
          mounted, pending, last>>

\* the Selection Model: baseline and the two exception sets
model == <<customSelectionTotal, selectedRowIds, deselectedRowIds>>

\* ------------------------------------------------------------ remote source
Pages == 1..MaxPage

\* the item at virtual position p of the remote collection has identifier p+1
PositionOf(id) == id - 1

Min(a, b) == IF a < b THEN a ELSE b
Max(a, b) == IF a > b THEN a ELSE b

\* Math.ceil(a / b) for a >= 0, b > 0
Ceil(a, b) == (a + b - 1) \div b

\* variant: the request carries no limit and the source returns one more item
PageData_noLimit(p) ==
  LET first == (p - 1) * rowsPerPage
      n     == Max(0, Min(rowsPerPage + 1, RemoteTotal - first))
  IN  [i \in 1..n |-> first + i]

\* data.data of the response for ?page=p&limit=rowsPerPage
PageData(p) ==
  LET first == (p - 1) * rowsPerPage
      n     == Max(0, Min(rowsPerPage, RemoteTotal - first))
  IN  [i \in 1..n |-> first + i]

\* ids of the rows currently displayed
PageIds == {artworks[i] : i \in DOMAIN artworks}

\* artworks.findIndex(a => a.id === id): zero-based index, -1 when absent
findIndex(id) ==
  IF \E i \in DOMAIN artworks : artworks[i] = id
  THEN (CHOOSE i \in DOMAIN artworks :
          artworks[i] = id /\ \A j \in 1..(i - 1) : artworks[j] # id) - 1
  ELSE -1

\* variant: the page number is not reduced by one
globalIndex_fromPageZero(index) == currentPage * rowsPerPage + index

\* (currentPage - 1) * rowsPerPage + index, index zero-based
globalIndex(index) == (currentPage - 1) * rowsPerPage + index

\* ---------------------------------------------------------------- parseInt
\* text of the number input: a sequence of one-character strings
DigitChars == <<"0", "1", "2", "3", "4", "5", "6", "7", "8", "9">>
IsDigit(c) == \E d \in 1..10 : DigitChars[d] = c
DigitVal(c) == (CHOOSE d \in 1..10 : DigitChars[d] = c) - 1
IsSpace(c) == c = " "

RECURSIVE SkipSpaces(_)
SkipSpaces(s) ==
  IF s # <<>> /\ IsSpace(Head(s)) THEN SkipSpaces(Tail(s)) ELSE s

\* value of the longest prefix of digits of s, acc the value read so far
RECURSIVE ReadDigits(_, _)
ReadDigits(s, acc) ==
  IF s # <<>> /\ IsDigit(Head(s))
  THEN ReadDigits(Tail(s), acc * 10 + DigitVal(Head(s)))
  ELSE acc

\* parseInt(text): leading blanks, an optional sign, then the longest run of
\* digits; NaN when no digit follows.  Anything after the digits is ignored.
parseInt(text) ==
  LET t      == SkipSpaces(text)
      signed == t # <<>> /\ Head(t) \in {"+", "-"}
      neg    == t # <<>> /\ Head(t) = "-"
      u      == IF signed THEN Tail(t) ELSE t
  IN  IF u = <<>> \/ ~IsDigit(Head(u))
      THEN [nan |-> TRUE, val |-> 0]
      ELSE [nan |-> FALSE,
            val |-> IF neg THEN 0 - ReadDigits(u, 0) ELSE ReadDigits(u, 0)]

isNaN(n) == n.nan

\* --------------------------------------------------------------- the inputs
\* texts typed into the number input
InputTexts == { <<"0">>, <<"1", "5">>, <<"7", ".", "5">>, <<"-", "3">> }

\* identifiers of row events: page 1 offset 4 and page 2 offset 0; each is
\* absent from the rows displayed while the other page is shown
EventIds == {5, 13}

\* ------------------------------------------------------------------ queries
\* variant: the include set is consulted before the exclude set
effectiveSelected_includeFirst(rowId, position) ==
  IF rowId \in selectedRowIds THEN TRUE
  ELSE IF rowId \in deselectedRowIds THEN FALSE
  ELSE position < customSelectionTotal

\* isRowSelected(rowId, rowIndex), rowIndex zero-based
\* the three rules of isRowSelected for a row at a given global index
effectiveSelected(rowId, position) ==
  IF rowId \in deselectedRowIds THEN FALSE
  ELSE IF rowId \in selectedRowIds THEN TRUE
  ELSE position < customSelectionTotal

isRowSelected(rowId, rowIndex) ==
  effectiveSelected(rowId, globalIndex(rowIndex))

\* the "Selected: N rows" label
selectedCount ==
  customSelectionTotal + Cardinality(selectedRowIds)
                       - Cardinality(deselectedRowIds)

\* number of fetches in flight
RECURSIVE PendingUpTo(_)
PendingUpTo(n) == IF n = 0 THEN 0 ELSE pending[n] + PendingUpTo(n - 1)
PendingCount == PendingUpTo(MaxPage)

\* history: the event handled by the last step when it was a baseline request
\* or a fetch that failed: the handler, the row id it named (0: none), its
\* flag (the input was accepted), and dirty: the count was accepted while
\* exceptions were held
NoEvent == [op |-> "none", id |-> 0, flag |-> FALSE, dirty |-> FALSE]
Event(op, id, flag) ==
  [op |-> op, id |-> id, flag |-> flag,
   dirty |-> (flag /\ (selectedRowIds \cup deselectedRowIds) # {})]

\* ---------------------------------------------------------------- the state
Init ==
  /\ artworks = <<>>
  /\ loading = FALSE
  /\ currentPage = 1
  /\ totalRecords = 0
  /\ selectedRowIds = {}
  /\ deselectedRowIds = {}
  /\ customSelectionTotal = 0
  /\ customTotalRef = 0
  /\ selectCount = <<>>
  /\ mounted = FALSE
  /\ pending = [p \in Pages |-> 0]
  /\ last = NoEvent

\* fetchArtworks(page) up to its await: setLoading(true), request sent
fetchArtworks(page) ==
  /\ loading' = TRUE
  /\ pending' = [pending EXCEPT ![page] = @ + 1]

\* useEffect(() => fetchArtworks(currentPage), [currentPage]) on mount
Mount ==
  /\ ~mounted
  /\ mounted' = TRUE
  /\ fetchArtworks(currentPage)
  /\ last' = NoEvent
  /\ UNCHANGED <<artworks, currentPage, totalRecords, selectedRowIds,
                 deselectedRowIds, customSelectionTotal, customTotalRef,
                 selectCount>>

\* ------------------------------------------------------------ row handlers
\* variant: selecting a row that is already an exception flips it back
RowSelect_flips(sel, desel, id, index) ==
  LET autoSelectedByRule == globalIndex(index) < customTotalRef
  IN  IF autoSelectedByRule
      THEN <<sel, IF id \in desel THEN desel \ {id} ELSE desel \cup {id}>>
      ELSE <<IF id \in sel THEN sel \ {id} ELSE sel \cup {id}, desel>>

\* the sets left by onRowSelect for a row found at zero-based index
RowSelect(sel, desel, id, index) ==
  LET autoSelectedByRule == globalIndex(index) < customTotalRef
  IN  IF autoSelectedByRule
      THEN <<sel, desel \ {id}>>
      ELSE <<sel \cup {id}, desel>>

\* the sets left by onRowUnselect for a row found at zero-based index
RowUnselect(sel, desel, id, index) ==
  LET autoSelectedByRule == globalIndex(index) < customTotalRef
  IN  IF autoSelectedByRule
      THEN <<sel \ {id}, desel \cup {id}>>
      ELSE <<sel \ {id}, desel>>

\* variant: no early return when the row is not displayed
onRowSelectResult_noReturn(id) ==
  RowSelect(selectedRowIds, deselectedRowIds, id, findIndex(id))

\* the sets onRowSelect leaves: index === -1 returns before any update
onRowSelectResult(id) ==
  LET index == findIndex(id)
  IN  IF index = -1
      THEN <<selectedRowIds, deselectedRowIds>>
      ELSE RowSelect(selectedRowIds, deselectedRowIds, id, index)

\* the sets onRowUnselect leaves
onRowUnselectResult(id) ==
  LET index == findIndex(id)
  IN  IF index = -1
      THEN <<selectedRowIds, deselectedRowIds>>
      ELSE RowUnselect(selectedRowIds, deselectedRowIds, id, index)

onRowSelect(id) ==
  /\ mounted
  /\ selectedRowIds' = onRowSelectResult(id)[1]
  /\ deselectedRowIds' = onRowSelectResult(id)[2]
  /\ last' = NoEvent
  /\ UNCHANGED <<artworks, loading, currentPage, totalRecords,
                 customSelectionTotal, customTotalRef, selectCount,
                 mounted, pending>>

onRowUnselect(id) ==
  /\ mounted
  /\ selectedRowIds' = onRowUnselectResult(id)[1]
  /\ deselectedRowIds' = onRowUnselectResult(id)[2]
  /\ last' = NoEvent
  /\ UNCHANGED <<artworks, loading, currentPage, totalRecords,
                 customSelectionTotal, customTotalRef, selectCount,
                 mounted, pending>>

\* variant: select-all does not remove the deselect block of a row
SelectAllStep_keepsBlock(st, id, checked) ==
  IF checked
  THEN <<st[1] \cup {id}, st[2]>>
  ELSE <<IF id \in selectedRowIds THEN st[1] \ {id} ELSE st[1],
         st[2] \cup {id}>>

\* variant: a row found in selectedRowIds restarts the set of blocked rows
SelectAllStep_resets(st, id, checked) ==
  IF checked
  THEN <<st[1] \cup {id},
         IF id \in deselectedRowIds THEN st[2] \ {id} ELSE st[2]>>
  ELSE IF id \in selectedRowIds THEN <<st[1] \ {id}, {id}>>
       ELSE <<st[1], st[2] \cup {id}>>

\* one pass of the forEach of onSelectAllChange for one id: the updates it
\* queues applied to st; the has() tests read the sets of the render
SelectAllStep(st, id, checked) ==
  IF checked
  THEN <<st[1] \cup {id},
         IF id \in deselectedRowIds THEN st[2] \ {id} ELSE st[2]>>
  ELSE <<IF id \in selectedRowIds THEN st[1] \ {id} ELSE st[1],
         st[2] \cup {id}>>

\* currentPageIds.forEach(...) over the ids in the order given
RECURSIVE SelectAllOver(_, _, _)
SelectAllOver(ids, checked, st) ==
  IF ids = <<>> THEN st
  ELSE SelectAllOver(Tail(ids), checked, SelectAllStep(st, Head(ids), checked))

\* variant: select-all keeps only the ids of the displayed page
onSelectAllChange_replaces(checked) ==
  /\ mounted
  /\ LET currentPageIds == PageIds
     IN  IF checked
         THEN /\ selectedRowIds' = currentPageIds
              /\ deselectedRowIds' = deselectedRowIds \
                   {id \in currentPageIds : id \in deselectedRowIds}
         ELSE /\ deselectedRowIds' = currentPageIds
              /\ selectedRowIds' = selectedRowIds \
                   {id \in currentPageIds : id \in selectedRowIds}
  /\ last' = NoEvent
  /\ UNCHANGED <<artworks, loading, currentPage, totalRecords,
                 customSelectionTotal, customTotalRef, selectCount,
                 mounted, pending>>

\* onSelectAllChange({checked}): the has() tests read the sets of the render
\* the handler was created in, the updates are applied to the queued state
onSelectAllChange(checked) ==
  /\ mounted
  /\ LET currentPageIds == artworks
         next == SelectAllOver(currentPageIds, checked,
                               <<selectedRowIds, deselectedRowIds>>)
     IN  /\ selectedRowIds' = next[1]
         /\ deselectedRowIds' = next[2]
  /\ last' = NoEvent
  /\ UNCHANGED <<artworks, loading, currentPage, totalRecords,
                 customSelectionTotal, customTotalRef, selectCount,
                 mounted, pending>>

\* ------------------------------------------------------- baseline replacement
\* onChange of the number input: setSelectCount(e.target.value)
onSelectCountChange(text) ==
  /\ mounted
  /\ selectCount' = text
  /\ last' = NoEvent
  /\ UNCHANGED <<artworks, loading, currentPage, totalRecords,
                 selectedRowIds, deselectedRowIds, customSelectionTotal,
                 customTotalRef, mounted, pending>>

\* variant: a new count keeps the manual selections made before it
handleCustomRowSelection_keepsSelected ==
  /\ mounted
  /\ LET count == parseInt(selectCount)
     IN  IF isNaN(count) \/ count.val < 0
         THEN /\ last' = Event("handleCustomRowSelection", 0, FALSE)
              /\ UNCHANGED <<selectedRowIds, deselectedRowIds,
                             customSelectionTotal, customTotalRef,
                             selectCount>>
         ELSE /\ UNCHANGED selectedRowIds
              /\ deselectedRowIds' = {}
              /\ customSelectionTotal' = count.val
              /\ customTotalRef' = count.val
              /\ selectCount' = <<>>
              /\ last' = Event("handleCustomRowSelection", 0, TRUE)
  /\ UNCHANGED <<artworks, loading, currentPage, totalRecords, mounted,
                 pending>>

\* variant: an accepted count reloads the displayed page
handleCustomRowSelection_refetches ==
  /\ mounted
  /\ LET count == parseInt(selectCount)
     IN  IF isNaN(count) \/ count.val < 0
         THEN /\ last' = Event("handleCustomRowSelection", 0, FALSE)
              /\ UNCHANGED <<selectedRowIds, deselectedRowIds,
                             customSelectionTotal, customTotalRef,
                             selectCount, loading, pending>>
         ELSE /\ selectedRowIds' = {}
              /\ deselectedRowIds' = {}
              /\ customSelectionTotal' = count.val
              /\ customTotalRef' = count.val
              /\ selectCount' = <<>>
              /\ last' = Event("handleCustomRowSelection", 0, TRUE)
              /\ IF PendingCount < MaxPending
                 THEN fetchArtworks(currentPage)
                 ELSE UNCHANGED <<loading, pending>>
  /\ UNCHANGED <<artworks, currentPage, totalRecords, mounted>>

\* variant: the count < 0 test is missing
handleCustomRowSelection_noSignTest ==
  /\ mounted
  /\ LET count == parseInt(selectCount)
     IN  IF isNaN(count)
         THEN /\ last' = Event("handleCustomRowSelection", 0, FALSE)
              /\ UNCHANGED <<selectedRowIds, deselectedRowIds,
                             customSelectionTotal, customTotalRef,
                             selectCount>>
         ELSE /\ selectedRowIds' = {}
              /\ deselectedRowIds' = {}
              /\ customSelectionTotal' = count.val
              /\ customTotalRef' = count.val
              /\ selectCount' = <<>>
              /\ last' = Event("handleCustomRowSelection", 0, TRUE)
  /\ UNCHANGED <<artworks, loading, currentPage, totalRecords, mounted,
                 pending>>

\* variant: the ref is not brought up to date with the new baseline
handleCustomRowSelection_staleRef ==
  /\ mounted
  /\ LET count == parseInt(selectCount)
     IN  IF isNaN(count) \/ count.val < 0
         THEN /\ last' = Event("handleCustomRowSelection", 0, FALSE)
              /\ UNCHANGED <<selectedRowIds, deselectedRowIds,
                             customSelectionTotal, customTotalRef,
                             selectCount>>
         ELSE /\ selectedRowIds' = {}
              /\ deselectedRowIds' = {}
              /\ customSelectionTotal' = count.val
              /\ customTotalRef' = customTotalRef
              /\ selectCount' = <<>>
              /\ last' = Event("handleCustomRowSelection", 0, TRUE)
  /\ UNCHANGED <<artworks, loading, currentPage, totalRecords, mounted,
                 pending>>

handleCustomRowSelection ==
  /\ mounted
  /\ LET count == parseInt(selectCount)
     IN  IF isNaN(count) \/ count.val < 0
         THEN /\ last' = Event("handleCustomRowSelection", 0, FALSE)
              /\ UNCHANGED <<selectedRowIds, deselectedRowIds,
                             customSelectionTotal, customTotalRef,
                             selectCount>>
         ELSE /\ selectedRowIds' = {}
              /\ deselectedRowIds' = {}
              /\ customSelectionTotal' = count.val
              /\ customTotalRef' = count.val
              /\ selectCount' = <<>>
              /\ last' = Event("handleCustomRowSelection", 0, TRUE)
  /\ UNCHANGED <<artworks, loading, currentPage, totalRecords, mounted,
                 pending>>

\* ------------------------------------------------------------------ paging
\* setCurrentPage(page) and the [currentPage] effect that follows the render
setCurrentPage(page) ==
  /\ currentPage' = page
  /\ IF page # currentPage
     THEN fetchArtworks(page)
     ELSE UNCHANGED <<loading, pending>>

totalPages == Ceil(totalRecords, rowsPerPage)

\* the left arrow, disabled on page 1
prevPage ==
  /\ mounted
  /\ currentPage # 1
  /\ PendingCount < MaxPending
  /\ setCurrentPage(currentPage - 1)
  /\ last' = NoEvent
  /\ UNCHANGED <<artworks, totalRecords, selectedRowIds, deselectedRowIds,
                 customSelectionTotal, customTotalRef, selectCount, mounted>>

\* the right arrow, disabled on the page numbered totalPages
nextPage ==
  /\ mounted
  /\ currentPage # totalPages
  /\ currentPage < MaxPage
  /\ PendingCount < MaxPending
  /\ setCurrentPage(currentPage + 1)
  /\ last' = NoEvent
  /\ UNCHANGED <<artworks, totalRecords, selectedRowIds, deselectedRowIds,
                 customSelectionTotal, customTotalRef, selectCount, mounted>>

\* the page numbers offered by the numbered buttons
pageButtons ==
  {pageNum \in
     {(IF currentPage <= 3 THEN i + 1 ELSE currentPage - 2 + i) :
        i \in 0..(Min(5, totalPages) - 1)} : pageNum <= totalPages}

gotoPage(pageNum) ==
  /\ mounted
  /\ pageNum \in pageButtons
  /\ pageNum <= MaxPage
  /\ PendingCount < MaxPending
  /\ setCurrentPage(pageNum)
  /\ last' = NoEvent
  /\ UNCHANGED <<artworks, totalRecords, selectedRowIds, deselectedRowIds,
                 customSelectionTotal, customTotalRef, selectCount, mounted>>

\* ---------------------------------------------------------- fetch completions
\* variant: a page that arrives resets the manual selections
fetchResolved_clearsSelection(page) ==
  /\ pending[page] > 0
  /\ pending' = [pending EXCEPT ![page] = @ - 1]
  /\ artworks' = PageData(page)
  /\ totalRecords' = RemoteTotal
  /\ loading' = FALSE
  /\ selectedRowIds' = {}
  /\ last' = NoEvent
  /\ UNCHANGED <<currentPage, deselectedRowIds,
                 customSelectionTotal, customTotalRef, selectCount, mounted>>

\* the rest of fetchArtworks(page) when the response arrives and decodes
fetchResolved(page) ==
  /\ pending[page] > 0
  /\ pending' = [pending EXCEPT ![page] = @ - 1]
  /\ artworks' = PageData(page)
  /\ totalRecords' = RemoteTotal
  /\ loading' = FALSE
  /\ last' = NoEvent
  /\ UNCHANGED <<currentPage, selectedRowIds, deselectedRowIds,
                 customSelectionTotal, customTotalRef, selectCount, mounted>>

\* variant: a failed fetch drops the manual selections
fetchRejected_resets(page) ==
  /\ pending[page] > 0
  /\ pending' = [pending EXCEPT ![page] = @ - 1]
  /\ loading' = FALSE
  /\ selectedRowIds' = {}
  /\ deselectedRowIds' = {}
  /\ last' = Event("fetchRejected", 0, FALSE)
  /\ UNCHANGED <<artworks, currentPage, totalRecords, customSelectionTotal,
                 customTotalRef, selectCount, mounted>>

\* the rest of fetchArtworks(page) when fetch or json() throws
fetchRejected(page) ==
  /\ pending[page] > 0
  /\ pending' = [pending EXCEPT ![page] = @ - 1]
  /\ loading' = FALSE
  /\ last' = Event("fetchRejected", 0, FALSE)
  /\ UNCHANGED <<artworks, currentPage, totalRecords, selectedRowIds,
                 deselectedRowIds, customSelectionTotal, customTotalRef,
                 selectCount, mounted>>

Next ==
  \/ Mount
  \/ \E id \in EventIds : onRowSelect(id)
  \/ \E id \in EventIds : onRowUnselect(id)
  \/ \E checked \in BOOLEAN : onSelectAllChange(checked)
  \/ \E text \in InputTexts : onSelectCountChange(text)
  \/ handleCustomRowSelection
  \/ prevPage
  \/ nextPage
  \/ \E pageNum \in Pages : gotoPage(pageNum)
  \/ \E page \in Pages : fetchResolved(page)
  \/ \E page \in Pages : fetchRejected(page)

Spec == Init /\ [][Next]_vars

\* ------------------------------------------------- events the table emits
\* variant: every() alone, without the artworks.length > 0 test
isAllSelected_noLengthTest ==
  \A i \in DOMAIN artworks : isRowSelected(artworks[i], i - 1)

\* selectAll={isAllSelected()}: the state of the header checkbox
isAllSelected ==
  /\ Len(artworks) > 0
  /\ \A i \in DOMAIN artworks : isRowSelected(artworks[i], i - 1)

\* selection={getSelectedArtworks()}: the rows shown checked
getSelectedArtworks ==
  {artworks[i] : i \in {j \in DOMAIN artworks :
                          isRowSelected(artworks[j], j - 1)}}

\* the checkbox of a displayed row that is not shown checked is clicked
tableRowSelect(id) ==
  /\ id \in PageIds
  /\ id \notin getSelectedArtworks
  /\ onRowSelect(id)

\* the checkbox of a displayed row that is shown checked is clicked
tableRowUnselect(id) ==
  /\ id \in PageIds
  /\ id \in getSelectedArtworks
  /\ onRowUnselect(id)

\* the header checkbox is clicked: it asks for the opposite of what it shows
tableSelectAll ==
  onSelectAllChange(~isAllSelected)

NextTable ==
  \/ Mount
  \/ \E id \in EventIds : tableRowSelect(id)
  \/ \E id \in EventIds : tableRowUnselect(id)
  \/ tableSelectAll
  \/ \E text \in InputTexts : onSelectCountChange(text)
  \/ handleCustomRowSelection
  \/ prevPage
  \/ nextPage
  \/ \E pageNum \in Pages : gotoPage(pageNum)
  \/ \E page \in Pages : fetchResolved(page)
  \/ \E page \in Pages : fetchRejected(page)

\* the component driven only by the events its table and buttons can emit
SpecTable == Init /\ [][NextTable]_vars

\* ------------------------------------------------- a source that never fails
NextReliable ==
  \/ Mount
  \/ \E id \in EventIds : tableRowSelect(id)
  \/ \E id \in EventIds : tableRowUnselect(id)
  \/ tableSelectAll
  \/ \E text \in InputTexts : onSelectCountChange(text)
  \/ handleCustomRowSelection
  \/ prevPage
  \/ nextPage
  \/ \E pageNum \in Pages : gotoPage(pageNum)
  \/ \E page \in Pages : fetchResolved(page)

\* the component when every page fetch completes successfully
SpecReliable == Init /\ [][NextReliable]_vars

\* ======================================================================
\* Properties
\* ======================================================================
\* positions of the remote collection
Positions == 0..(RemoteTotal - 1)
\* identifier of the item at a position
IdAt(p) == p + 1

\* C1: in every reachable state the include set (selectedRowIds) and the
\* exclude set (deselectedRowIds) have no identifier in common.
C1_IncludeExcludeDisjoint == selectedRowIds \cap deselectedRowIds = {}

\* C2: every id in include is at a virtual position >= baseline and every id
\* in exclude is at a virtual position < baseline; no membership on the wrong
\* side of the baseline is left behind by an operation.
C2_NoStaleMembership ==
  /\ \A id \in selectedRowIds : PositionOf(id) >= customSelectionTotal
  /\ \A id \in deselectedRowIds : PositionOf(id) < customSelectionTotal

\* C3: the displayed count baseline + |include| - |exclude| is the number of
\* items of the remote collection that are effectively selected, so it is
\* neither negative nor larger than the collection.
C3_CountIsNumberSelected ==
  /\ selectedCount =
       Cardinality({p \in Positions : effectiveSelected(IdAt(p), p)})
  /\ selectedCount >= 0
  /\ selectedCount <= RemoteTotal

\* C4: right after a valid baseline replacement with count k >= 0, from any
\* state, baseline = k, include and exclude are empty, the count shown is k
\* and every item is selected exactly when its position is below k.
C4_ReplacementResets ==
  [][(last'.op = "handleCustomRowSelection" /\ last'.flag
        /\ handleCustomRowSelection) =>
       LET k == parseInt(selectCount).val
       IN  /\ customSelectionTotal' = k
           /\ selectedRowIds' = {}
           /\ deselectedRowIds' = {}
           /\ selectedCount' = k
           /\ \A p \in Positions : effectiveSelected(IdAt(p), p)' = (p < k)
           /\ \A i \in DOMAIN artworks :
                isRowSelected(artworks[i], i - 1)' = (globalIndex(i - 1) < k)
    ]_vars

\* C4 witness: a count was accepted in a state that held manual overrides and
\* the model now holds the bare baseline.
C4_Witness ==
  /\ last.op = "handleCustomRowSelection" /\ last.flag /\ last.dirty
  /\ selectedRowIds = {} /\ deselectedRowIds = {}
  /\ selectedCount = customSelectionTotal
  /\ artworks # <<>>

\* the text is an integer numeral: an optional sign and digits, nothing else
RECURSIVE AllDigits(_)
AllDigits(s) == s = <<>> \/ (IsDigit(Head(s)) /\ AllDigits(Tail(s)))
IsIntegerText(text) ==
  LET u == IF text # <<>> /\ Head(text) \in {"+", "-"} THEN Tail(text)
           ELSE text
  IN  u # <<>> /\ AllDigits(u)
IsNegativeText(text) == text # <<>> /\ Head(text) = "-"

\* C5: a baseline replacement whose input is negative, non-numeric or not an
\* integer leaves baseline, include and exclude as they were.
C5_BadInputRejected ==
  [][(handleCustomRowSelection
        /\ (~IsIntegerText(selectCount) \/ IsNegativeText(selectCount)))
       => UNCHANGED model]_vars

\* C6: a single-item toggle of a displayed row at position p does exactly the
\* mutation of the 2x2 table: select at p >= baseline adds the id to include
\* and removes it from exclude, select at p < baseline removes it from
\* exclude, unselect at p < baseline adds it to exclude and removes it from
\* include, unselect at p >= baseline removes it from include.
C6_ToggleTable ==
  [][\A id \in EventIds :
       LET p == globalIndex(findIndex(id))
       IN  /\ (onRowSelect(id) /\ findIndex(id) # -1) =>
                IF p >= customSelectionTotal
                THEN /\ selectedRowIds' = selectedRowIds \cup {id}
                     /\ deselectedRowIds' = deselectedRowIds \ {id}
                ELSE /\ selectedRowIds' = selectedRowIds
                     /\ deselectedRowIds' = deselectedRowIds \ {id}
           /\ (onRowUnselect(id) /\ findIndex(id) # -1) =>
                IF p < customSelectionTotal
                THEN /\ deselectedRowIds' = deselectedRowIds \cup {id}
                     /\ selectedRowIds' = selectedRowIds \ {id}
                ELSE /\ selectedRowIds' = selectedRowIds \ {id}
                     /\ deselectedRowIds' = deselectedRowIds
    ]_vars

\* C7: a page response is applied to the displayed rows only if its page
\* number is the currently requested page number; otherwise it is dropped.
C7_SupersededResponseDropped ==
  [][\A page \in Pages :
       (fetchResolved(page) /\ page # currentPage)
         => UNCHANGED <<artworks, totalRecords>>]_vars

\* C8: while the fetch of a newly requested page is pending, the position
\* used for every displayed row is the position of the page the row was
\* fetched from, not one derived from the requested page number.
C8_PendingUsesOwnPositions ==
  (loading /\ pending[currentPage] > 0) =>
    \A i \in DOMAIN artworks : globalIndex(i - 1) = PositionOf(artworks[i])

\* the sets after the single-item toggle (id, checked) has been applied to the
\* displayed rows 1..n in turn
RECURSIVE TogglesApplied(_, _)
TogglesApplied(n, checked) ==
  IF n = 0 THEN <<selectedRowIds, deselectedRowIds>>
  ELSE LET before == TogglesApplied(n - 1, checked)
       IN  IF checked
           THEN RowSelect(before[1], before[2], artworks[n], n - 1)
           ELSE RowUnselect(before[1], before[2], artworks[n], n - 1)

\* C9: page-level select-all(checked) leaves exactly the sets that the
\* single-item toggle (id, checked), applied to every row of the displayed
\* page with its own position, leaves.
C9_SelectAllIsToggleOfEach ==
  [][\A checked \in BOOLEAN :
       onSelectAllChange(checked) =>
         <<selectedRowIds', deselectedRowIds'>>
           = TogglesApplied(Len(artworks), checked)]_vars

\* a step that changes the page number, or starts or completes a fetch
Navigation ==
  \/ currentPage' # currentPage
  \/ pending' # pending

\* C10: changing the page and completing a fetch leave baseline, include and
\* exclude unchanged, so every item keeps its effective selection.
C10_OverridesSurviveNavigation ==
  [][Navigation =>
       /\ UNCHANGED model
       /\ \A p \in Positions :
            effectiveSelected(IdAt(p), p)' = effectiveSelected(IdAt(p), p)
    ]_vars

\* C10 witness: overrides of rows of page 1, which can only be made while
\* page 1 is displayed, are still held after page 2 was requested and arrived.
C10_Witness ==
  /\ currentPage = 2 /\ artworks = PageData(2) /\ PendingCount = 0
  /\ 5 \in selectedRowIds
  /\ IdAt(0) \in deselectedRowIds

\* C11: a single-row toggle is idempotent: from any reachable state, handling
\* the same row event (same id, same desired state) twice in a row leaves the
\* sets the first handling left.
C11_ToggleIdempotent ==
  \A id \in EventIds :
    LET index == findIndex(id)
        s1 == RowSelect(selectedRowIds, deselectedRowIds, id, index)
        s2 == RowSelect(s1[1], s1[2], id, index)
        u1 == RowUnselect(selectedRowIds, deselectedRowIds, id, index)
        u2 == RowUnselect(u1[1], u1[2], id, index)
    IN  index # -1 => (s2 = s1 /\ u2 = u1)
\* row 5 of page 1 has been selected by its checkbox and nothing else is held:
\* the same event handled again is the second application
C11_Witness ==
  /\ findIndex(5) = 4
  /\ customSelectionTotal = 0
  /\ selectedRowIds = {5}
  /\ deselectedRowIds = {}

\* isRowSelected evaluated for given exception sets
isRowSelectedIn(sel, desel, rowId, rowIndex) ==
  IF rowId \in desel THEN FALSE
  ELSE IF rowId \in sel THEN TRUE
  ELSE globalIndex(rowIndex) < customSelectionTotal

\* row events on the displayed page: e.data.id and the state asked for
RowEvents == [id : EventIds \cap PageIds, checked : BOOLEAN]
RowEventSeqs == UNION {[1..n -> RowEvents] : n \in 0..MaxToggles}

\* the sets left by handling a sequence of row events, starting from st
RECURSIVE HandleRowEvents(_, _)
HandleRowEvents(seq, st) ==
  IF seq = <<>> THEN st
  ELSE LET e     == Head(seq)
           index == findIndex(e.id)
       IN  HandleRowEvents(Tail(seq),
             IF e.checked THEN RowSelect(st[1], st[2], e.id, index)
                          ELSE RowUnselect(st[1], st[2], e.id, index))

\* the table emits the sequence: each event asks for the opposite of what the
\* row's checkbox shows when it is clicked
RECURSIVE CanEmit(_, _)
CanEmit(seq, st) ==
  IF seq = <<>> THEN TRUE
  ELSE LET e     == Head(seq)
           index == findIndex(e.id)
       IN  /\ e.checked # isRowSelectedIn(st[1], st[2], e.id, index)
           /\ CanEmit(Tail(seq),
                IF e.checked THEN RowSelect(st[1], st[2], e.id, index)
                             ELSE RowUnselect(st[1], st[2], e.id, index))

\* the rows of the page wanted selected after the events of seq, from wanted d
RECURSIVE DesiredAfter(_, _)
DesiredAfter(seq, d) ==
  IF seq = <<>> THEN d
  ELSE DesiredAfter(Tail(seq), IF Head(seq).checked
                               THEN d \cup {Head(seq).id}
                               ELSE d \ {Head(seq).id})

\* C12: convergence: two sequences of row events on the displayed page,
\* started from the same state and ending with the same rows of the page
\* wanted selected, leave the same baseline and the same two sets (row events
\* never write the baseline, so the sets decide).
C12_Convergence ==
  LET st0 == <<selectedRowIds, deselectedRowIds>>
  IN  \A s, t \in RowEventSeqs :
        ( /\ CanEmit(s, st0)
          /\ CanEmit(t, st0)
          /\ DesiredAfter(s, getSelectedArtworks)
               = DesiredAfter(t, getSelectedArtworks) )
        => HandleRowEvents(s, st0) = HandleRowEvents(t, st0)

\* C13: a row event whose id is not among the displayed rows changes nothing:
\* baseline, include and exclude are what they were (the handlers have no
\* update of the baseline; the sets they leave are the sets they found).
C13_UnknownIdRejected ==
  \A id \in EventIds :
    findIndex(id) = -1 =>
      /\ onRowSelectResult(id) = <<selectedRowIds, deselectedRowIds>>
      /\ onRowUnselectResult(id) = <<selectedRowIds, deselectedRowIds>>
\* page 1 is displayed, both sets hold ids, and row 13 of page 2 holds an
\* exception: a row event naming 13 is handled in this state and leaves it
C13_Witness ==
  /\ artworks = PageData(1)
  /\ findIndex(13) = -1
  /\ 13 \in selectedRowIds \cup deselectedRowIds
  /\ selectedRowIds # {}
  /\ deselectedRowIds # {}

\* the ids whose membership in one of the exception sets the step changes
Changed ==
  ((selectedRowIds' \ selectedRowIds) \cup (selectedRowIds \ selectedRowIds'))
  \cup ((deselectedRowIds' \ deselectedRowIds)
        \cup (deselectedRowIds \ deselectedRowIds'))

\* C14: frame of the incremental operations: a row event and a select-all or
\* unselect-all leave the baseline unchanged and leave the membership of every
\* id that is not on the displayed page unchanged; a row event also leaves the
\* membership of every other id of the page unchanged.
C14_IncrementalFrame ==
  [][model' # model =>
       /\ \A id \in EventIds :
            \/ /\ customSelectionTotal' = customSelectionTotal
               /\ Changed \subseteq ({id} \cap PageIds)
            \/ ~(onRowSelect(id) \/ onRowUnselect(id))
       /\ \A checked \in BOOLEAN :
            \/ /\ customSelectionTotal' = customSelectionTotal
               /\ Changed \subseteq PageIds
            \/ ~onSelectAllChange(checked)
    ]_vars
\* row 5 was selected on page 1 and select-all was then used on page 2: the
\* row event touched no other row of page 1, select-all left row 5 included
C14_Witness ==
  /\ artworks = PageData(2)
  /\ customSelectionTotal = 0
  /\ selectedRowIds = {5} \cup PageIds
  /\ deselectedRowIds = {}

\* C15: a page fetch that fails leaves the Selection Model as it was: baseline,
\* include and exclude are unchanged.
C15_FailedFetchKeepsModel ==
  [][last'.op = "fetchRejected" =>
       ((\E page \in Pages : fetchRejected(page)) => UNCHANGED model)
    ]_vars
\* a fetch has just failed while a baseline and ids in both sets were held
C15_Witness ==
  /\ last.op = "fetchRejected"
  /\ customSelectionTotal = 15
  /\ selectedRowIds # {}
  /\ deselectedRowIds # {}

\* C16: when a page fetch fails the displayed list becomes empty (an empty
\* page is shown, with an error indicator) instead of keeping the rows of the
\* page shown before.
C16_FailureShowsEmptyPage ==
  [][last'.op = "fetchRejected" => artworks' = <<>>]_vars

\* the step sends a request to the page source
FetchStarted == \E p \in Pages : pending'[p] > pending[p]

\* a row event, a select-all or unselect-all, or a baseline request
SelectionOperation ==
  \/ \E id \in EventIds : onRowSelect(id) \/ onRowUnselect(id)
  \/ \E checked \in BOOLEAN : onSelectAllChange(checked)
  \/ handleCustomRowSelection

\* C17: no selection operation starts a page fetch (row events, select-all,
\* unselect-all, baseline requests valid or not); a fetch is started only by
\* the mount and by a change of the current page number; and the rows held
\* are at most the rows of one page.
C17_FetchOnlyOnMountOrPageChange ==
  [][/\ FetchStarted =>
          /\ (~mounted /\ mounted') \/ currentPage' # currentPage
          /\ ~SelectionOperation
     /\ artworks' # artworks =>
          /\ Len(artworks') <= rowsPerPage
          /\ \E p \in Pages : artworks' = PageData(p)
    ]_vars
\* an invalid count has just been refused, after a valid one and row events on
\* page 1 that left ids in both sets, and no request is in flight
C17_Witness ==
  /\ last.op = "handleCustomRowSelection" /\ ~last.flag
  /\ customSelectionTotal = 15
  /\ selectedRowIds # {}
  /\ deselectedRowIds # {}
  /\ artworks = PageData(1) /\ currentPage = 1
  /\ PendingCount = 0 /\ ~loading

\* C18: the effective selection of the displayed item id at offset o, with
\* p = (page number - 1) * page size + o, is: false if id is in exclude,
\* otherwise true if id is in include, otherwise p < baseline; exclusion
\* wins over inclusion and both win over the bulk rule.  The rows handed to
\* the table as selected are the rows for which this is true.
C18_EffectiveSelectionRule ==
  LET e(i) == LET id == artworks[i]
                  p  == (currentPage - 1) * rowsPerPage + (i - 1)
              IN  IF id \in deselectedRowIds THEN FALSE
                  ELSE IF id \in selectedRowIds THEN TRUE
                  ELSE p < customSelectionTotal
  IN  /\ \A i \in DOMAIN artworks : isRowSelected(artworks[i], i - 1) = e(i)
      /\ getSelectedArtworks = {artworks[i] : i \in {j \in DOMAIN artworks : e(j)}}
\* a displayed row is in both sets (exclusion decides), another is in neither
\* and below the baseline (the bulk rule decides)
C18_Witness ==
  /\ \E i \in DOMAIN artworks :
       artworks[i] \in selectedRowIds \cap deselectedRowIds
  /\ \E i \in DOMAIN artworks :
       /\ artworks[i] \notin selectedRowIds \cup deselectedRowIds
       /\ globalIndex(i - 1) < customSelectionTotal

\* C19: with a baseline k and no overrides, for every page number and offset
\* the item is selected exactly when (page - 1) * 12 + offset < k; for k = 15
\* every row of page 1 is selected and on page 2 exactly the rows at offsets
\* 0, 1 and 2 are.
C19_BaselineAloneDecides ==
  (selectedRowIds = {} /\ deselectedRowIds = {}) =>
    LET k == customSelectionTotal
    IN  /\ \A p \in Positions : effectiveSelected(IdAt(p), p) = (p < k)
        /\ \A i \in DOMAIN artworks :
             isRowSelected(artworks[i], i - 1)
               = ((currentPage - 1) * rowsPerPage + (i - 1) < k)
        /\ (k = 15 /\ currentPage = 1) =>
             \A i \in DOMAIN artworks : isRowSelected(artworks[i], i - 1)
        /\ (k = 15 /\ currentPage = 2) =>
             \A i \in DOMAIN artworks :
               isRowSelected(artworks[i], i - 1) = (i - 1 \in {0, 1, 2})
\* the count 15 was accepted, no row has been touched since, and page 2 is
\* displayed
C19_Witness ==
  /\ customSelectionTotal = 15
  /\ selectedRowIds = {} /\ deselectedRowIds = {}
  /\ currentPage = 2 /\ artworks = PageData(2)
  /\ PendingCount = 0

\* C20: a row event that changes the row's effective selection changes the
\* count shown by exactly one: up by one when the row becomes selected, down
\* by one when it becomes unselected (baseline 0, row 5 selected: include =
\* {5}, count 1; baseline 15, the row at position 12 unselected: count 14).
C20_ToggleChangesCountByOne ==
  [][model' # model =>
       \A id \in EventIds \cap PageIds :
         /\ (onRowSelect(id) /\ ~isRowSelected(id, findIndex(id))
                             /\ isRowSelected(id, findIndex(id))')
            => selectedCount' = selectedCount + 1
         /\ (onRowUnselect(id) /\ isRowSelected(id, findIndex(id))
                               /\ ~isRowSelected(id, findIndex(id))')
            => selectedCount' = selectedCount - 1
    ]_vars

\* C21 (as stated): the header checkbox is checked if and only if every
\* displayed row is selected, and unchecked if and only if none is, for every
\* displayed page, an empty one included.
C21_IndicatorAllOrNone ==
  /\ isAllSelected = (getSelectedArtworks = PageIds)
  /\ (~isAllSelected) = (getSelectedArtworks = {})
\* C21 (amended): the header checkbox is checked if and only if the displayed
\* page is not empty and every row of it is selected; in every other case
\* (some rows selected, none selected, no rows) it is unchecked.
C21_IndicatorCheckedIffAllSelected ==
  isAllSelected = (PageIds # {} /\ getSelectedArtworks = PageIds)
\* some rows of the displayed page are selected and some are not
C21_Witness ==
  /\ getSelectedArtworks # {}
  /\ getSelectedArtworks # PageIds
  /\ ~isAllSelected

\* ---------------------------------------------- select-all on any held sets
\* ids the user may hold in either set when select-all is used: rows 1, 2
\* and 5 of page 1 and row 13 of page 2
HeldIds == {1, 2, 5, 13}

\* the component showing a page, with any baseline entered before and any of
\* the held ids in either set
InitSelectAll ==
  /\ \E p \in {1, 2} : currentPage = p /\ artworks = PageData(p)
  /\ loading = FALSE
  /\ totalRecords = RemoteTotal
  /\ selectedRowIds \in SUBSET HeldIds
  /\ deselectedRowIds \in SUBSET HeldIds
  /\ customSelectionTotal \in {0, 15}
  /\ customTotalRef = customSelectionTotal
  /\ selectCount = <<>>
  /\ mounted = TRUE
  /\ pending = [p \in Pages |-> 0]
  /\ last = NoEvent

NextSelectAll ==
  \E checked \in BOOLEAN : onSelectAllChange(checked)

\* the header checkbox used from any such state
SpecSelectAll == InitSelectAll /\ [][NextSelectAll]_vars

\* rearrangements of a list of n ids: every swap of two rows, the reversal
\* and the rotation by one
Rearrangements(n) ==
  {[i \in 1..n |-> IF i = j THEN k ELSE IF i = k THEN j ELSE i] :
     j \in 1..n, k \in 1..n}
  \cup {[i \in 1..n |-> n + 1 - i], [i \in 1..n |-> (i % n) + 1]}

\* C22: the order in which select-all or unselect-all goes through the ids of
\* the page does not matter: the page list taken in another order leaves the
\* same include and exclude sets.
C22_SelectAllOrderIrrelevant ==
  LET st0 == <<selectedRowIds, deselectedRowIds>>
      n   == Len(artworks)
  IN  \A checked \in BOOLEAN :
        \A f \in Rearrangements(n) :
          SelectAllOver([i \in 1..n |-> artworks[f[i]]], checked, st0)
            = SelectAllOver(artworks, checked, st0)
\* select-all has gone through page 1 while row 13 of page 2 was blocked and
\* rows of page 1 were held in both sets
C22_Witness ==
  /\ artworks = PageData(1)
  /\ PageIds \subseteq selectedRowIds
  /\ deselectedRowIds = {13}

\* C23: the baseline is a non-negative integer in every reachable state: it
\* starts at 0 with both sets empty, and no text submitted as a count
\* (negative, fractional, not a number) makes it negative or not an integer.
C23_BaselineNonNegative ==
  /\ customSelectionTotal \in Nat
  /\ customTotalRef \in Nat
  /\ ~mounted => /\ customSelectionTotal = 0
                 /\ selectedRowIds = {}
                 /\ deselectedRowIds = {}
\* the text "-3" has just been refused, after "7.5" had been taken as 7
C23_Witness ==
  /\ last.op = "handleCustomRowSelection" /\ ~last.flag
  /\ selectCount = <<"-", "3">>
  /\ customSelectionTotal = 7

\* C24: after a row event (id, wanted) for a row of the displayed page, the
\* effective selection of that row is what the event wanted, from any
\* reachable state, also one reached through select-all or unselect-all.
C24_ToggleTakesEffect ==
  [][\A id \in EventIds \cap PageIds :
       /\ onRowSelect(id) => isRowSelected(id, findIndex(id))'
       /\ onRowUnselect(id) => ~isRowSelected(id, findIndex(id))'
    ]_vars

\* every displayed row is shown checked (or every one unchecked) under the
\* sets st
EveryRowShown(st, checked) ==
  \A i \in DOMAIN artworks :
    isRowSelectedIn(st[1], st[2], artworks[i], i - 1) = checked

\* C25: select-all on a page that is not empty leaves every row of the page
\* selected and unselect-all leaves no row of it selected, from any reachable
\* state and whatever the baseline.
C25_SelectAllTakesEffect ==
  \A checked \in BOOLEAN :
    EveryRowShown(SelectAllOver(artworks, checked,
                                <<selectedRowIds, deselectedRowIds>>),
                  checked)
\* unselect-all has gone through page 2 under baseline 15: rows 13 to 15, below
\* the baseline, and the rows above it are all blocked
C25_Witness ==
  /\ artworks = PageData(2) /\ currentPage = 2
  /\ customSelectionTotal = 15
  /\ PageIds \subseteq deselectedRowIds
  /\ getSelectedArtworks = {}

\* C26: after the last navigation, once every outstanding fetch has completed
\* successfully, the rows displayed are the response for the current page
\* number; the display never settles on the rows of another page.
C26_SettledPageIsCurrent ==
  (mounted /\ PendingCount = 0) => artworks = PageData(currentPage)

\* the offsets of the rows in the response for page p
OffsetsOf(p) == 0..(Len(PageData(p)) - 1)

\* (page - 1) * rowsPerPage + index for a row of any page
PositionAt(page, index) == (page - 1) * rowsPerPage + index

\* every (page, offset) pair of a row in some response of the source
PagePairs == {pr \in Pages \X (0..rowsPerPage) : pr[2] \in OffsetsOf(pr[1])}

\* no two distinct pairs of PagePairs have the same virtual position
PairsInjective ==
  \A a, b \in PagePairs :
    PositionAt(a[1], a[2]) = PositionAt(b[1], b[2]) => a = b

C28_PageInRange ==
  /\ currentPage >= 1
  /\ currentPage <= Max(1, totalPages)

\* C29: the loading flag is true whenever at least one page fetch is
\* outstanding and false only when none is, for every interleaving of
\* overlapping fetches.
C29_LoadingIffOutstanding ==
  loading = (PendingCount > 0)

\* C30: whenever a row handler runs, the baseline it reads from
\* customTotalRef.current equals customSelectionTotal, the baseline used for
\* rendering, so it classifies every displayed row as the rendering does; no
\* event meets a stale baseline after a baseline replacement.
C30_RefIsCurrentBaseline ==
  /\ customTotalRef = customSelectionTotal
  /\ \A id \in EventIds :
        findIndex(id) # -1 =>
          ((globalIndex(findIndex(id)) < customTotalRef)
             = (globalIndex(findIndex(id)) < customSelectionTotal))

\* the baseline was replaced by 15 and row 5 was unselected afterwards
C30_Witness ==
  /\ artworks = PageData(1)
  /\ currentPage = 1
  /\ customSelectionTotal = 15
  /\ customTotalRef = 15
  /\ selectedRowIds = {}
  /\ deselectedRowIds = {5}

====
